---------------------------- MODULE Spec2Model ----------------------------
(***************************************************************************)
(* The two line filters of the repository:                                 *)
(*   Variant A  src/clean_summary.py                                       *)
(*   Variant B  src/scripts/deprecated/remove_bracket_lines.py             *)
(* Both define clean_summary_file(input_path, output_path=None): read the  *)
(* input file as UTF-8 text, drop the lines a predicate matches, write the *)
(* kept lines to the output path, print a report.                          *)
(*                                                                         *)
(* A file is a sequence of bytes (0..255); a line is a sequence of code    *)
(* points.  The host is POSIX: os.linesep is "\n".  A text handle reads    *)
(* the file in read() calls of ChunkSize bytes and writes it in write()    *)
(* calls issued when its buffers fill and when it is closed; these calls   *)
(* are the steps at which two invocations can observe each other.          *)
(***************************************************************************)
EXTENDS Naturals, Sequences, FiniteSets

\* Documents are built from at most MaxSegs segments.
MaxSegs == 3

\* ------------------------------------------------------------- code points
\* "\n"
LF == 10

\* "\r"
CR == 13

\* " "
SP == 32

\* "\x0c"
FF == 12

\* "\t"
TAB == 9

\* The byte a hole in a file reads as.
NUL == 0

\* The glyph U+23BF that marks a line in Variant B.
GLYPH == 9151

\* A byte that occurs in no UTF-8 text.
INV == 255

\* ord() of the ASCII letters.
Ord ==
  [A |-> 65, B |-> 66, C |-> 67, D |-> 68, E |-> 69, F |-> 70, G |-> 71,
   H |-> 72, I |-> 73, J |-> 74, K |-> 75, L |-> 76, M |-> 77, N |-> 78,
   O |-> 79, P |-> 80, Q |-> 81, R |-> 82, S |-> 83, T |-> 84, U |-> 85,
   V |-> 86, W |-> 87, X |-> 88, Y |-> 89, Z |-> 90,
   a |-> 97, b |-> 98, c |-> 99, d |-> 100, e |-> 101, f |-> 102, g |-> 103,
   h |-> 104, i |-> 105, j |-> 106, k |-> 107, l |-> 108, m |-> 109,
   n |-> 110, o |-> 111, p |-> 112, q |-> 113, r |-> 114, s |-> 115,
   t |-> 116, u |-> 117, v |-> 118, w |-> 119, x |-> 120, y |-> 121,
   z |-> 122]

\* The code points str.strip() and str.lstrip() remove: those for which
\* str.isspace() holds.
Whitespace ==
  {9, 10, 11, 12, 13, 28, 29, 30, 31, 32, 133, 160, 5760}
    \cup (8192..8202) \cup {8232, 8233, 8239, 8287, 12288}

\* 'Bash'
BashToken == <<Ord.B, Ord.a, Ord.s, Ord.h>>

\* The glyph as a string.
GlyphToken == <<GLYPH>>

\* os.linesep on the host.
LineSep == <<LF>>

\* The number of bytes a text handle asks for in one read() call and the
\* number of pending bytes at which it hands its text to the byte buffer
\* (TextIOWrapper._CHUNK_SIZE).
ChunkSize == 8192

\* The size of the byte buffer under a text handle that open() creates: the
\* block size of the file system.
BufferSize == 4096

\* ---------------------------------------------------------- pure functions
\* The smaller of two numbers.
Min(a, b) == IF a < b THEN a ELSE b

RECURSIVE Concat(_)
\* ''.join(seqs)
Concat(seqs) ==
  IF seqs = <<>> THEN <<>> ELSE Head(seqs) \o Concat(Tail(seqs))

\* The length of the UTF-8 sequence that byte b starts; 0 when b starts none.
SeqLen(b) ==
  IF b < 128 THEN 1
  ELSE IF b \in 194..223 THEN 2
  ELSE IF b \in 224..239 THEN 3
  ELSE IF b \in 240..244 THEN 4
  ELSE 0

\* The bytes that can stand at position k >= 2 of the sequence that byte b
\* starts: no overlong form, no surrogate, nothing above U+10FFFF.
Continuation(b, k) ==
  IF k > 2 THEN 128..191
  ELSE IF b = 224 THEN 160..191
  ELSE IF b = 237 THEN 128..159
  ELSE IF b = 240 THEN 144..191
  ELSE IF b = 244 THEN 128..143
  ELSE 128..191

RECURSIVE Decodable(_, _)
\* The utf-8 decoder accepts the bytes.  Bytes that end within a sequence
\* are held back while more can come (final = FALSE) and are an error at the
\* end of the file (final = TRUE); so are the first two bytes of a
\* surrogate, 0xED and one of 0xA0..0xBF, when they are the last two bytes,
\* although no third byte makes them valid.
Decodable(bytes, final) ==
  IF bytes = <<>> THEN TRUE
  ELSE LET b == Head(bytes)
           n == SeqLen(b)
       IN  IF n = 0 THEN FALSE
           ELSE IF Len(bytes) = 2 /\ b = 237 /\ bytes[2] \in 160..191
                THEN ~final
           ELSE IF \E k \in 2..Min(n, Len(bytes)) :
                     bytes[k] \notin Continuation(b, k)
                THEN FALSE
           ELSE IF Len(bytes) < n THEN ~final
           ELSE Decodable(SubSeq(bytes, n + 1, Len(bytes)), final)

\* The code point a UTF-8 sequence encodes.
CodePoint(s) ==
  IF Len(s) = 1 THEN s[1]
  ELSE IF Len(s) = 2 THEN (s[1] - 192) * 64 + (s[2] - 128)
  ELSE IF Len(s) = 3
       THEN (s[1] - 224) * 4096 + (s[2] - 128) * 64 + (s[3] - 128)
  ELSE (s[1] - 240) * 262144 + (s[2] - 128) * 4096 + (s[3] - 128) * 64
         + (s[4] - 128)

RECURSIVE Decode(_)
\* bytes.decode('utf-8') of decodable bytes.
Decode(bytes) ==
  IF bytes = <<>> THEN <<>>
  ELSE LET n == SeqLen(Head(bytes))
       IN  <<CodePoint(SubSeq(bytes, 1, n))>>
             \o Decode(SubSeq(bytes, n + 1, Len(bytes)))

\* chr(c).encode('utf-8')
EncodeChar(c) ==
  IF c < 128 THEN <<c>>
  ELSE IF c < 2048 THEN <<192 + (c \div 64), 128 + (c % 64)>>
  ELSE IF c < 65536
       THEN <<224 + (c \div 4096), 128 + ((c \div 64) % 64), 128 + (c % 64)>>
  ELSE <<240 + (c \div 262144), 128 + ((c \div 4096) % 64),
         128 + ((c \div 64) % 64), 128 + (c % 64)>>

RECURSIVE Encode(_)
\* text.encode('utf-8')
Encode(text) ==
  IF text = <<>> THEN <<>>
  ELSE EncodeChar(Head(text)) \o Encode(Tail(text))

\* Mutant of UniversalNewlines: the file is opened with newline=''.
UniversalNewlinesOff(t) == t

RECURSIVE UniversalNewlines(_)
\* Reading with newline=None: "\r\n" and "\r" become "\n".
UniversalNewlines(t) ==
  IF t = <<>> THEN <<>>
  ELSE IF Head(t) = CR
       THEN <<LF>> \o UniversalNewlines(
                        IF Len(t) >= 2 /\ t[2] = LF
                        THEN SubSeq(t, 3, Len(t)) ELSE Tail(t))
       ELSE <<Head(t)>> \o UniversalNewlines(Tail(t))

RECURSIVE SplitKeepEnds(_, _)
\* The lines of t, each with its "\n"; the last may have none.
SplitKeepEnds(t, cur) ==
  IF t = <<>> THEN (IF cur = <<>> THEN <<>> ELSE <<cur>>)
  ELSE IF Head(t) = LF
       THEN <<Append(cur, LF)>> \o SplitKeepEnds(Tail(t), <<>>)
       ELSE SplitKeepEnds(Tail(t), Append(cur, Head(t)))

\* f.readlines() of a file that holds the bytes from the first read() to the
\* last.
readlines(bytes) ==
  SplitKeepEnds(UniversalNewlines(Decode(bytes)), <<>>)

\* The bytes one read() call returns at offset off.
ReadChunk(bytes, off) ==
  SubSeq(bytes, off + 1, Min(Len(bytes), off + ChunkSize))

\* The index of the last byte that ends a line whatever follows: "\n", or
\* "\r" with a byte after it ("\r" at the end is held back, a "\n" may
\* follow); 0 when there is none.
LastLineEnd(bytes) ==
  LET ends == {i \in 1..Len(bytes) :
                 bytes[i] = LF \/ (bytes[i] = CR /\ i < Len(bytes))}
  IN  IF ends = {} THEN 0 ELSE CHOOSE i \in ends : \A j \in ends : j <= i

RECURSIVE lstrip(_)
\* line.lstrip()
lstrip(line) ==
  IF line # <<>> /\ Head(line) \in Whitespace THEN lstrip(Tail(line)) ELSE line

RECURSIVE rstrip(_)
\* line.rstrip()
rstrip(line) ==
  IF line # <<>> /\ line[Len(line)] \in Whitespace
  THEN rstrip(SubSeq(line, 1, Len(line) - 1)) ELSE line

\* line.strip()
strip(line) == rstrip(lstrip(line))

\* s.startswith(tok)
startswith(s, tok) ==
  Len(s) >= Len(tok) /\ SubSeq(s, 1, Len(tok)) = tok

\* Mutant of IsBlank: only the empty line and "\n" are blank.
IsBlankEmptyOnly(line) == line \in {<<>>, <<LF>>}

\* line.strip() == ''
IsBlank(line) == strip(line) = <<>>

\* Mutant of IsBashLine: the line is not stripped.
IsBashLineNoLstrip(line) == startswith(line, BashToken)

\* line.lstrip().startswith('Bash')
IsBashLine(line) == startswith(lstrip(line), BashToken)

\* Mutant of IsGlyphLine: the glyph anywhere in the line.
IsGlyphLineAnywhere(line) == \E i \in 1..Len(line) : line[i] = GLYPH

\* line.lstrip().startswith(glyph)
IsGlyphLine(line) == startswith(lstrip(line), GlyphToken)

RECURSIVE EncodeNewlines(_)
\* Writing with newline=None: "\n" becomes os.linesep.
EncodeNewlines(t) ==
  IF t = <<>> THEN <<>>
  ELSE (IF Head(t) = LF THEN LineSep ELSE <<Head(t)>>)
         \o EncodeNewlines(Tail(t))

\* ------------------------------------------------------- the write buffers
\* A text handle opened for writing keeps text it has encoded but not handed
\* on (pending), under it a byte buffer (wbuf), and under that the file; the
\* write() calls the byte buffer has decided on and that have not been made
\* yet are in calls, oldest first.
NewWriter == [pending |-> <<>>, wbuf |-> <<>>, calls |-> <<>>]

\* BufferedWriter.write(data): data that fits the free part of the buffer is
\* kept; otherwise the buffer is written out, and data is written out too
\* when it is larger than the buffer and kept when it is not.
BufferedWrite(w, data) ==
  IF Len(data) <= BufferSize - Len(w.wbuf)
  THEN [w EXCEPT !.wbuf = @ \o data]
  ELSE LET out == IF w.wbuf = <<>> THEN w.calls ELSE Append(w.calls, w.wbuf)
       IN  IF Len(data) > BufferSize
           THEN [w EXCEPT !.calls = Append(out, data), !.wbuf = <<>>]
           ELSE [w EXCEPT !.calls = out, !.wbuf = data]

\* The text handle hands its pending bytes to the byte buffer.
WriteFlush(w) ==
  IF w.pending = <<>> THEN w
  ELSE BufferedWrite([w EXCEPT !.pending = <<>>], w.pending)

\* f.write(s): pending bytes are handed on first when s would take them
\* over ChunkSize, and after s is added when they have reached ChunkSize.
TextWrite(w, s) ==
  LET b == Encode(EncodeNewlines(s))
      w1 == IF w.pending # <<>> /\ Len(w.pending) + Len(b) > ChunkSize
            THEN WriteFlush(w) ELSE w
      w2 == [w1 EXCEPT !.pending = @ \o b]
  IN  IF Len(w2.pending) >= ChunkSize THEN WriteFlush(w2) ELSE w2

RECURSIVE writelinesJoined(_, _)
\* Mutant of writelines: a separator is written after every line.
writelinesJoined(w, ls) ==
  IF ls = <<>> THEN w
  ELSE writelinesJoined(TextWrite(w, Head(ls) \o <<LF>>), Tail(ls))

RECURSIVE writelines(_, _)
\* f.writelines(ls): f.write(line) for each line, nothing between them.
writelines(w, ls) ==
  IF ls = <<>> THEN w
  ELSE writelines(TextWrite(w, Head(ls)), Tail(ls))

\* f.close() up to the closing of the file: the text handle hands its
\* pending bytes on and the byte buffer is written out.
Flush(w) ==
  LET w1 == WriteFlush(w)
  IN  IF w1.wbuf = <<>> THEN w1
      ELSE [w1 EXCEPT !.calls = Append(@, w1.wbuf), !.wbuf = <<>>]

\* Mutant of WriteAt: the file is open for appending.
WriteAppend(old, off, data) == old \o data

\* One write() call of data at offset off of a file that holds old: the
\* bytes replace what lies there; past the end of the file the gap reads as
\* NUL bytes.
WriteAt(old, off, data) ==
  IF off >= Len(old)
  THEN old \o [i \in 1..(off - Len(old)) |-> NUL] \o data
  ELSE SubSeq(old, 1, off) \o data
         \o SubSeq(old, off + Len(data) + 1, Len(old))

\* ------------------------------------------------------------------ inputs
\* The files the __main__ block of clean_summary.py names: beside the script.
SummaryMd == "summary.md"

SummaryCleanedMd == "summary_cleaned.md"

\* The files the __main__ block of remove_bracket_lines.py names: beside
\* that script.
DeprecatedSummaryMd == "scripts/deprecated/summary.md"

DeprecatedSummaryCleanedMd == "scripts/deprecated/summary_cleaned.md"

Paths ==
  {SummaryMd, SummaryCleanedMd, DeprecatedSummaryMd, DeprecatedSummaryCleanedMd}

\* The paths a caller of clean_summary_file passes.
ArgPaths == {SummaryMd, SummaryCleanedMd}

\* output_path omitted.
None == "None"

\* A: clean_summary.py, B: remove_bracket_lines.py
Variants == {"A", "B"}

\* os.path.join(script_dir, 'summary.md') of script v.
ScriptInput(v) == IF v = "A" THEN SummaryMd ELSE DeprecatedSummaryMd

\* os.path.join(script_dir, 'summary_cleaned.md') of script v.
ScriptOutput(v) ==
  IF v = "A" THEN SummaryCleanedMd ELSE DeprecatedSummaryCleanedMd

\* The invocations.
Procs == {1, 2}

\* The segments documents are built from: "\n", "\r", " ", "Bash", the glyph.
Segs == {<<LF>>, <<CR>>, <<SP>>, Encode(BashToken), Encode(GlyphToken)}

RECURSIVE DocsUpTo(_, _)
\* Every concatenation of at most n blocks.
DocsUpTo(blocks, n) ==
  IF n = 0 THEN {<<>>}
  ELSE LET prev == DocsUpTo(blocks, n - 1)
       IN  prev \cup {d \o b : d \in prev, b \in blocks}

\* Variant A's example of spec section 8:
\* "Bash ls\n", "\n", "   \n", "ok\n", "  Bash echo hi\n"
ExampleA ==
  Encode(
          <<Ord.B, Ord.a, Ord.s, Ord.h, SP, Ord.l, Ord.s, LF>> \o
          <<LF>> \o
          <<SP, SP, SP, LF>> \o
          <<Ord.o, Ord.k, LF>> \o
          <<SP, SP, Ord.B, Ord.a, Ord.s, Ord.h, SP, Ord.e, Ord.c, Ord.h,
            Ord.o, SP, Ord.h, Ord.i, LF>>)

\* Variant B's example of spec section 8:
\* "<glyph> result\n", "normal line\n", "  <glyph> indented result\n"
ExampleB ==
  Encode(
          <<GLYPH, SP, Ord.r, Ord.e, Ord.s, Ord.u, Ord.l, Ord.t, LF>> \o
          <<Ord.n, Ord.o, Ord.r, Ord.m, Ord.a, Ord.l, SP, Ord.l, Ord.i, Ord.n,
            Ord.e, LF>> \o
          <<SP, SP, GLYPH, SP, Ord.i, Ord.n, Ord.d, Ord.e, Ord.n, Ord.t,
            Ord.e, Ord.d, SP, Ord.r, Ord.e, Ord.s, Ord.u, Ord.l, Ord.t, LF>>)

\* Case and anchoring:
\* "xBash\n", "bash ls\n", "BASH ls\n", "\x0c Bash\n", "a<glyph>\n", "Bash"
ExampleCase ==
  Encode(
          <<Ord.x, Ord.B, Ord.a, Ord.s, Ord.h, LF>> \o
          <<Ord.b, Ord.a, Ord.s, Ord.h, SP, Ord.l, Ord.s, LF>> \o
          <<Ord.B, Ord.A, Ord.S, Ord.H, SP, Ord.l, Ord.s, LF>> \o
          <<FF, SP, Ord.B, Ord.a, Ord.s, Ord.h, LF>> \o
          <<Ord.a, GLYPH, LF>> \o
          <<Ord.B, Ord.a, Ord.s, Ord.h>>)

\* Mixed terminators: "one\r\n", "two\r", "\x0c\n", "Bas\n", "three"
ExampleTerminators ==
  Encode(
          <<Ord.o, Ord.n, Ord.e, CR, LF>> \o
          <<Ord.t, Ord.w, Ord.o, CR>> \o
          <<FF, LF>> \o
          <<Ord.B, Ord.a, Ord.s, LF>> \o
          <<Ord.t, Ord.h, Ord.r, Ord.e, Ord.e>>)

\* Blank lines and the glyph at several places:
\* "\n", "  \n", "a<glyph>\n", " \x0c<glyph> x\n", "<glyph>"
ExampleGlyph ==
  Encode(
          <<LF>> \o
          <<SP, SP, LF>> \o
          <<Ord.a, GLYPH, LF>> \o
          <<SP, FF, GLYPH, SP, Ord.x, LF>> \o
          <<GLYPH>>)

\* Whitespace other than the space: "\tBash\n", "\t\n",
\* "\x0b\x1c\x1d\x1e\x1f\n", "\xa0\u2028\u3000Bash\n",
\* "\x85\u1680\u2000\u200a\u2029\u202f\u205f<glyph>\n"; and two code points
\* that are not whitespace: "\u200bBash\n", "\ufeff<glyph>\n"
ExampleWhitespace ==
  Encode(
          <<TAB, Ord.B, Ord.a, Ord.s, Ord.h, LF>> \o
          <<TAB, LF>> \o
          <<11, 28, 29, 30, 31, LF>> \o
          <<160, 8232, 12288, Ord.B, Ord.a, Ord.s, Ord.h, LF>> \o
          <<133, 5760, 8192, 8202, 8233, 8239, 8287, GLYPH, LF>> \o
          <<8203, Ord.B, Ord.a, Ord.s, Ord.h, LF>> \o
          <<65279, GLYPH, LF>>)

\* A file that is not valid UTF-8: "ok\n", the byte 0xff, "\n".
ExampleInvalid == <<Ord.o, Ord.k, LF, INV, LF>>

\* A file that ends in the middle of the glyph's bytes.
ExampleCut == <<Ord.o, Ord.k, LF, 226, 142>>

\* A file that ends with the first two bytes of a surrogate.
ExampleSurrogate == <<Ord.o, Ord.k, LF, 237, 160>>

\* What summary.md can hold before the first invocation.
InputDocs ==
  DocsUpTo(Segs, MaxSegs)
    \cup {ExampleA, ExampleB, ExampleCase, ExampleGlyph, ExampleWhitespace,
          ExampleTerminators, ExampleInvalid, ExampleCut, ExampleSurrogate}

\* The lines f.readlines() makes of the examples.
ExampleALines == readlines(ExampleA)

ExampleBLines == readlines(ExampleB)

ExampleCaseLines == readlines(ExampleCase)

ExampleWhitespaceLines == readlines(ExampleWhitespace)

\* What summary.md can hold when two invocations run concurrently: whole
\* lines, "Bash\n" and "<glyph>\n", each kept by one variant only.
RaceDocs ==
  DocsUpTo({Encode(BashToken \o <<LF>>), Encode(GlyphToken \o <<LF>>)}, MaxSegs)

\* What an output file holds, when it exists, before the first invocation:
\* "old\n", "<glyph> old\n", "\n", "Bash\n", "old tail\n"
OldContent ==
  Encode(
          <<Ord.o, Ord.l, Ord.d, LF>> \o
          <<GLYPH, SP, Ord.o, Ord.l, Ord.d, LF>> \o
          <<LF>> \o
          <<Ord.B, Ord.a, Ord.s, Ord.h, LF>> \o
          <<Ord.o, Ord.l, Ord.d, SP, Ord.t, Ord.a, Ord.i, Ord.l, LF>>)

\* -------------------------------------------------------------------- state
VARIABLES
  fs,          \* path -> the bytes of the file (<<>> when it does not exist)
  exists,      \* the paths that name a file
  orig,        \* fs and exists as they were before the first invocation
  concurrent,  \* TRUE iff the operator launches the invocations concurrently
  proc         \* invocation -> its position and its local variables; two
               \* fields are history only: arg_output, the output_path
               \* argument as passed, and fs_at_rerun, the files as the
               \* first run left them when the script is run again

vars == <<fs, exists, orig, concurrent, proc>>

\* An invocation that has not been launched.  in_off, in_pend and in_lines
\* are the state of the handle that reads: its offset in the file, the bytes
\* read that no line has been made of yet, the lines made so far; raised
\* holds while an error of readlines leaves the with block.  out_off and
\* writer are the state of the handle that writes.
Idle ==
  [pc |-> "idle", variant |-> "A", via_main |-> FALSE,
   input_path |-> None, output_path |-> None,
   arg_output |-> None, fs_at_rerun |-> <<>>,
   in_open |-> FALSE, in_off |-> 0, in_pend |-> <<>>, in_lines |-> <<>>,
   raised |-> FALSE,
   lines |-> <<>>, original_count |-> 0,
   cleaned_lines |-> <<>>, empty_removed |-> 0, bash_removed |-> 0,
   removed_count |-> 0, done_lines |-> 0,
   out_open |-> FALSE, out_off |-> 0, writer |-> NewWriter, report |-> <<>>]

\* Before the first invocation nothing has been launched.  Either the tree
\* holds one summary.md, beside clean_summary.py, and no output file; or
\* each script has a summary.md beside it and the output of an earlier run.
InitFiles(docs) ==
  \E d \in docs, old \in BOOLEAN :
    /\ fs = [p \in Paths |->
               IF p = SummaryMd THEN d
               ELSE IF ~old THEN <<>>
               ELSE IF p = DeprecatedSummaryMd THEN d
               ELSE OldContent]
    /\ exists = IF old THEN Paths ELSE {SummaryMd}
    /\ orig = [fs |-> fs, exists |-> exists]
    /\ proc = [p \in Procs |-> Idle]

Init == InitFiles(InputDocs) /\ concurrent = FALSE

InitRace == InitFiles(RaceDocs) /\ concurrent = TRUE

\* Mutant of ResolvedOutput: the default is the script's output file.
ResolvedOutputDefault(input_path, output_path) ==
  IF output_path = None THEN SummaryCleanedMd ELSE output_path

\* if output_path is None: output_path = input_path
ResolvedOutput(input_path, output_path) ==
  IF output_path = None THEN input_path ELSE output_path

\* The file invocation p writes.
Target(p) == ResolvedOutput(proc[p].input_path, proc[p].output_path)

\* The invocations are launched in order; the second is launched while the
\* first runs only when the operator runs them concurrently, and then
\* against the output path of the first.
CanLaunch(p, i, o) ==
  /\ proc[p].pc = "idle"
  /\ \/ p = 1
     \/ /\ concurrent
        /\ proc[1].pc # "idle"
        /\ ResolvedOutput(i, o) = Target(1)

\* Invocation p enters clean_summary_file with its arguments bound.
Launch(p, v, i, o, m, seen) ==
  proc' = [proc EXCEPT ![p] =
             [Idle EXCEPT !.pc = "resolve", !.variant = v, !.via_main = m,
                          !.input_path = i, !.output_path = o,
                          !.arg_output = o, !.fs_at_rerun = seen]]

\* ------------------------------------------------------------------ actions
\* A call clean_summary_file(input_path[, output_path]) of either script.
Invoke(p) ==
  /\ \E v \in Variants, i \in ArgPaths, o \in ArgPaths \cup {None} :
       CanLaunch(p, i, o) /\ Launch(p, v, i, o, FALSE, <<>>)
  /\ UNCHANGED <<fs, exists, orig, concurrent>>

\* A script run as __main__: summary.md beside the script in,
\* summary_cleaned.md beside the script out.
MainScript(p) ==
  /\ \E v \in Variants :
       /\ CanLaunch(p, ScriptInput(v), ScriptOutput(v))
       /\ Launch(p, v, ScriptInput(v), ScriptOutput(v), TRUE, <<>>)
  /\ UNCHANGED <<fs, exists, orig, concurrent>>

\* The operator runs the same script again on the file the first run wrote,
\* in place.
Rerun ==
  /\ proc[1].pc = "done"
  /\ proc[2].pc = "idle"
  /\ Launch(2, proc[1].variant, proc[1].output_path, None, FALSE, fs)
  /\ UNCHANGED <<fs, exists, orig, concurrent>>

\* Lines 18-19 (16-17 in Variant B).
ResolveOutput(p) ==
  /\ proc[p].pc = "resolve"
  /\ proc' = [proc EXCEPT
       ![p].output_path = ResolvedOutput(proc[p].input_path, proc[p].output_path),
       ![p].pc = "open_in"]
  /\ UNCHANGED <<fs, exists, orig, concurrent>>

\* Mutant of OpenInput: with open(input_path) as f, open(output_path, 'w') as g
OpenInputAndOutput(p) ==
  /\ proc[p].pc = "open_in"
  /\ IF proc[p].input_path \in exists
     THEN /\ fs' = [fs EXCEPT ![proc[p].output_path] = <<>>]
          /\ exists' = exists \cup {proc[p].output_path}
          /\ proc' = [proc EXCEPT ![p].in_open = TRUE, ![p].out_open = TRUE,
                                  ![p].pc = "read"]
     ELSE /\ proc' = [proc EXCEPT ![p].pc = "failed"]
          /\ UNCHANGED <<fs, exists>>
  /\ UNCHANGED <<orig, concurrent>>

\* open(input_path, 'r', encoding='utf-8'): FileNotFoundError when the path
\* names no file; the error propagates.
OpenInput(p) ==
  /\ proc[p].pc = "open_in"
  /\ proc' = IF proc[p].input_path \in exists
             THEN [proc EXCEPT ![p].in_open = TRUE, ![p].in_off = 0,
                               ![p].pc = "read"]
             ELSE [proc EXCEPT ![p].pc = "failed"]
  /\ UNCHANGED <<fs, exists, orig, concurrent>>

\* The read handle is closed and its state discarded.
ClosedInput(r) ==
  [r EXCEPT !.in_open = FALSE, !.in_off = 0, !.in_pend = <<>>,
            !.in_lines = <<>>]

\* One read() call of lines = f.readlines().  The call returns the bytes of
\* the file at the handle's offset, as the file is at that moment, ChunkSize
\* at most.  Bytes the decoder rejects raise UnicodeDecodeError, which leaves
\* the with block.  Of the bytes read the complete lines are taken; the rest
\* waits for the next call.  A call that
\* returns nothing is the end of the file: what waits is the last line, and
\* readlines returns when nothing waits.
ReadInput(p) ==
  /\ proc[p].pc = "read"
  /\ LET r == proc[p]
         data == ReadChunk(fs[r.input_path], r.in_off)
         acc == r.in_pend \o data
         cut == LastLineEnd(acc)
         failed == [r EXCEPT !.raised = TRUE, !.pc = "close_in"]
     IN  proc' = [proc EXCEPT ![p] =
           IF data # <<>>
           THEN IF ~Decodable(acc, FALSE) THEN failed
                ELSE [r EXCEPT !.in_off = @ + Len(data),
                               !.in_lines = @ \o readlines(SubSeq(acc, 1, cut)),
                               !.in_pend = SubSeq(acc, cut + 1, Len(acc))]
           ELSE IF ~Decodable(acc, TRUE) THEN failed
           ELSE IF acc # <<>>
                THEN [r EXCEPT !.in_lines = @ \o readlines(acc),
                               !.in_pend = <<>>]
           ELSE [r EXCEPT !.lines = r.in_lines, !.pc = "close_in"]]
  /\ UNCHANGED <<fs, exists, orig, concurrent>>

\* The end of the with block of the read: the handle is closed; an error
\* raised in the block propagates.
CloseInput(p) ==
  /\ proc[p].pc = "close_in"
  /\ proc' = [proc EXCEPT ![p] =
       [ClosedInput(proc[p]) EXCEPT
          !.raised = FALSE,
          !.pc = IF proc[p].raised THEN "failed" ELSE "init"]]
  /\ UNCHANGED <<fs, exists, orig, concurrent>>

\* original_count = len(lines); cleaned_lines = []; the counters = 0
InitFilter(p) ==
  /\ proc[p].pc = "init"
  /\ proc' = [proc EXCEPT ![p].original_count = Len(proc[p].lines),
                          ![p].cleaned_lines = <<>>,
                          ![p].empty_removed = 0,
                          ![p].bash_removed = 0,
                          ![p].removed_count = 0,
                          ![p].done_lines = 0,
                          ![p].pc = "loop"]
  /\ UNCHANGED <<fs, exists, orig, concurrent>>

\* Mutant of FilterLineA: the Bash branch counts the line in both counters.
FilterLineADoubleCount(r, line) ==
  IF strip(line) = <<>>
  THEN [r EXCEPT !.empty_removed = @ + 1]
  ELSE IF startswith(lstrip(line), BashToken)
       THEN [r EXCEPT !.empty_removed = @ + 1, !.bash_removed = @ + 1]
       ELSE [r EXCEPT !.cleaned_lines = Append(@, line)]

\* One iteration of Variant A's loop over r (the invocation's record).
FilterLineA(r, line) ==
  IF IsBlank(line)
  THEN [r EXCEPT !.empty_removed = @ + 1]
  ELSE IF IsBashLine(line)
       THEN [r EXCEPT !.bash_removed = @ + 1]
       ELSE [r EXCEPT !.cleaned_lines = Append(@, line)]

\* One iteration of Variant B's loop.
FilterLineB(r, line) ==
  IF IsGlyphLine(line)
  THEN [r EXCEPT !.removed_count = @ + 1]
  ELSE [r EXCEPT !.cleaned_lines = Append(@, line)]

\* for line in lines: one iteration.
FilterStep(p) ==
  /\ proc[p].pc = "loop"
  /\ proc[p].done_lines < Len(proc[p].lines)
  /\ LET line == proc[p].lines[proc[p].done_lines + 1]
         r == IF proc[p].variant = "A"
              THEN FilterLineA(proc[p], line)
              ELSE FilterLineB(proc[p], line)
     IN  proc' = [proc EXCEPT ![p] = [r EXCEPT !.done_lines = @ + 1]]
  /\ UNCHANGED <<fs, exists, orig, concurrent>>

\* Mutant of Truncated: the file is opened without truncation ('r+').
TruncatedNot(old) == old

\* What mode 'w' leaves of the file's previous bytes.
Truncated(old) == <<>>

\* open(output_path, 'w', encoding='utf-8'), once the loop is exhausted: the
\* file is created if need be and truncated; the handle's offset is 0.
OpenOutput(p) ==
  /\ proc[p].pc = "loop"
  /\ proc[p].done_lines = Len(proc[p].lines)
  /\ fs' = [fs EXCEPT ![proc[p].output_path] = Truncated(@)]
  /\ exists' = exists \cup {proc[p].output_path}
  /\ proc' = [proc EXCEPT ![p].out_open = TRUE, ![p].out_off = 0,
                          ![p].writer = NewWriter, ![p].pc = "write"]
  /\ UNCHANGED <<orig, concurrent>>

\* f.writelines(cleaned_lines): the text goes through the handle's buffers,
\* which decide on the write() calls to make while they fill.
WriteOutput(p) ==
  /\ proc[p].pc = "write"
  /\ proc' = [proc EXCEPT
       ![p].writer = writelines(@, proc[p].cleaned_lines),
       ![p].pc = "flush"]
  /\ UNCHANGED <<fs, exists, orig, concurrent>>

\* One write() call of the handle, the oldest it has decided on: the bytes
\* go to the file at the handle's offset, as the file is at that moment, and
\* the offset moves past them.
RawWrite(p) ==
  /\ proc[p].pc \in {"flush", "close_out"}
  /\ proc[p].writer.calls # <<>>
  /\ LET data == Head(proc[p].writer.calls)
     IN  /\ fs' = [fs EXCEPT ![proc[p].output_path] =
                                WriteAt(@, proc[p].out_off, data)]
         /\ proc' = [proc EXCEPT ![p].out_off = @ + Len(data),
                                 ![p].writer.calls = Tail(@)]
  /\ UNCHANGED <<exists, orig, concurrent>>

\* The end of the with block of the write, once writelines has returned:
\* f.close() flushes the buffers, which decide on the write() calls left.
FlushOutput(p) ==
  /\ proc[p].pc = "flush"
  /\ proc[p].writer.calls = <<>>
  /\ proc' = [proc EXCEPT ![p].writer = Flush(@), ![p].pc = "close_out"]
  /\ UNCHANGED <<fs, exists, orig, concurrent>>

\* f.close() closes the file once the flush has made its write() calls.
CloseOutput(p) ==
  /\ proc[p].pc = "close_out"
  /\ proc[p].writer.calls = <<>>
  /\ proc' = [proc EXCEPT ![p].out_open = FALSE, ![p].out_off = 0,
                          ![p].writer = NewWriter, ![p].pc = "report"]
  /\ UNCHANGED <<fs, exists, orig, concurrent>>

\* The numbers the report prints: original, removed (Variant A: the two
\* counters, in the order printed), final, and the output path.
ReportOf(r) ==
  [original_count |-> r.original_count,
   removed |-> IF r.variant = "A" THEN <<r.empty_removed, r.bash_removed>>
               ELSE <<r.removed_count>>,
   final_count |-> Len(r.cleaned_lines),
   output_path |-> r.output_path]

\* print(...) of the summary; the function returns.
Report(p) ==
  /\ proc[p].pc = "report"
  /\ proc' = [proc EXCEPT ![p].report = <<ReportOf(proc[p])>>, ![p].pc = "done"]
  /\ UNCHANGED <<fs, exists, orig, concurrent>>

Step(p) ==
  \/ Invoke(p)
  \/ MainScript(p)
  \/ ResolveOutput(p)
  \/ OpenInput(p)
  \/ ReadInput(p)
  \/ CloseInput(p)
  \/ InitFilter(p)
  \/ FilterStep(p)
  \/ OpenOutput(p)
  \/ WriteOutput(p)
  \/ RawWrite(p)
  \/ FlushOutput(p)
  \/ CloseOutput(p)
  \/ Report(p)

Next == (\E p \in Procs : Step(p)) \/ Rerun

\* One invocation, then possibly the same script again on its output.
Spec == Init /\ [][Next]_vars

\* Two invocations launched concurrently.
SpecRace == InitRace /\ [][Next]_vars

\* ------------------------------------------------- vocabulary of the claims
\* The positions at which the filter loop has run zero or more iterations.
Filtering == {"loop", "write", "flush", "close_out", "report", "done"}

\* The positions at which the output has been written and closed.
Written == {"report", "done"}

\* The line is empty or consists of whitespace only.
AllWhitespace(line) == \A i \in 1..Len(line) : line[i] \in Whitespace

\* After some number of leading whitespace characters, and nothing else,
\* the line continues with tok.
BeginsWith(line, tok) ==
  \E k \in 0..Len(line) :
    /\ \A i \in 1..k : line[i] \in Whitespace
    /\ k + Len(tok) <= Len(line)
    /\ \A j \in 1..Len(tok) : line[k + j] = tok[j]

\* The lines each variant is said to remove.
Matches(v, line) ==
  IF v = "A"
  THEN AllWhitespace(line) \/ BeginsWith(line, BashToken)
  ELSE BeginsWith(line, GlyphToken)

RECURSIVE Without(_, _)
\* The sequence of lines with the matching ones deleted.
Without(v, ls) ==
  IF ls = <<>> THEN <<>>
  ELSE IF Matches(v, Head(ls)) THEN Without(v, Tail(ls))
       ELSE <<Head(ls)>> \o Without(v, Tail(ls))

RECURSIVE Count(_, _, _)
\* How many of the lines are of kind k: "blank", "bash" (not blank, begins
\* with the marker word) or "glyph".
Count(k, ls, n) ==
  IF ls = <<>> THEN n
  ELSE LET l == Head(ls)
           hit == CASE k = "blank" -> AllWhitespace(l)
                    [] k = "bash" -> ~AllWhitespace(l) /\ BeginsWith(l, BashToken)
                    [] OTHER -> BeginsWith(l, GlyphToken)
       IN  Count(k, Tail(ls), IF hit THEN n + 1 ELSE n)

RECURSIVE Sum(_)
\* The sum of a sequence of numbers.
Sum(ns) == IF ns = <<>> THEN 0 ELSE Head(ns) + Sum(Tail(ns))

\* The lines of the file the first invocation was given, as the file was
\* before the invocation.
OrigLines == readlines(orig.fs[proc[1].input_path])

\* ------------------------------------------------------------------- claims
\* C1: in both variants the loop keeps
\* lines processed = len(cleaned_lines) + the removed counter(s), and the
\* report satisfies final_count + removed_count = original_count, where
\* original_count is the number of lines read.
C1_CountsAddUp ==
  \A p \in Procs :
    LET r == proc[p]
        removed == r.empty_removed + r.bash_removed + r.removed_count
    IN  /\ r.pc \in Filtering =>
             /\ r.done_lines = Len(r.cleaned_lines) + removed
             /\ r.original_count = Len(r.lines)
        /\ r.pc \in Written => r.done_lines = r.original_count
        /\ r.pc = "done" =>
             /\ r.report[1].final_count + Sum(r.report[1].removed)
                  = r.report[1].original_count
             /\ r.report[1].original_count = Len(r.lines)
             /\ r.report[1].final_count = Len(r.cleaned_lines)

\* A Variant A run has reported, having removed a blank line and a Bash
\* line and kept a line.
C1_Witness ==
  /\ proc[1].pc = "done"
  /\ proc[1].variant = "A"
  /\ proc[1].empty_removed > 0
  /\ proc[1].bash_removed > 0
  /\ proc[1].cleaned_lines # <<>>

\* C5: Variant A removes a line iff it is empty or whitespace-only or, after
\* its leading whitespace, begins with the case-sensitive token Bash; every
\* other line is kept.  The spec's example gives ["ok\n"] and counts 5, 4, 1;
\* xBash, bash and BASH lines are kept; "\x0c Bash" and an unterminated last
\* line Bash are removed; whitespace is what str.isspace() says it is.
C5_VariantAPredicate ==
  \A p \in Procs :
  LET r == proc[p]
  IN  (r.variant = "A" /\ r.pc \in Filtering) =>
        /\ r.cleaned_lines = Without("A", SubSeq(r.lines, 1, r.done_lines))
        /\ (r.pc = "done" /\ r.lines = ExampleALines) =>
             /\ r.cleaned_lines = << <<Ord.o, Ord.k, LF>> >>
             /\ r.report[1].original_count = 5
             /\ Sum(r.report[1].removed) = 4
             /\ r.report[1].final_count = 1
        /\ (r.pc = "done" /\ r.lines = ExampleCaseLines) =>
             r.cleaned_lines =
               << <<Ord.x, Ord.B, Ord.a, Ord.s, Ord.h, LF>>,
                  <<Ord.b, Ord.a, Ord.s, Ord.h, SP, Ord.l, Ord.s, LF>>,
                  <<Ord.B, Ord.A, Ord.S, Ord.H, SP, Ord.l, Ord.s, LF>>,
                  <<Ord.a, GLYPH, LF>> >>
        /\ (r.pc = "done" /\ r.lines = ExampleWhitespaceLines) =>
             /\ r.cleaned_lines =
                  << <<133, 5760, 8192, 8202, 8233, 8239, 8287, GLYPH, LF>>,
                     <<8203, Ord.B, Ord.a, Ord.s, Ord.h, LF>>,
                     <<65279, GLYPH, LF>> >>
             /\ r.report[1].removed = <<2, 2>>

\* Variant A has finished the spec's example.
C5_Witness ==
  /\ proc[1].pc = "done"
  /\ proc[1].variant = "A"
  /\ proc[1].input_path = SummaryMd
  /\ orig.fs[SummaryMd] = ExampleA
  /\ proc[1].cleaned_lines = << <<Ord.o, Ord.k, LF>> >>

\* C6: Variant B removes a line iff, after its leading whitespace, it begins
\* with the glyph; blank lines, whitespace-only lines and lines with the
\* glyph further on are kept.  The spec's example gives ["normal line\n"]
\* and counts 3, 2, 1; whitespace is what str.isspace() says it is.
C6_VariantBPredicate ==
  \A p \in Procs :
  LET r == proc[p]
  IN  (r.variant = "B" /\ r.pc \in Filtering) =>
        /\ r.cleaned_lines = Without("B", SubSeq(r.lines, 1, r.done_lines))
        /\ r.removed_count = Count("glyph", SubSeq(r.lines, 1, r.done_lines), 0)
        /\ (r.pc = "done" /\ r.lines = ExampleBLines) =>
             /\ r.cleaned_lines =
                  << <<Ord.n, Ord.o, Ord.r, Ord.m, Ord.a, Ord.l, SP,
                       Ord.l, Ord.i, Ord.n, Ord.e, LF>> >>
             /\ r.report[1].original_count = 3
             /\ r.report[1].removed = <<2>>
             /\ r.report[1].final_count = 1
        /\ (r.pc = "done" /\ r.lines = ExampleWhitespaceLines) =>
             /\ r.report[1].removed = <<1>>
             /\ r.cleaned_lines =
                  SubSeq(r.lines, 1, 4) \o SubSeq(r.lines, 6, 7)

\* Variant B has finished a file with a blank line, a line with the glyph
\* after an ordinary character, and a glyph line: the first two are kept.
C6_Witness ==
  /\ proc[1].pc = "done"
  /\ proc[1].variant = "B"
  /\ proc[1].input_path = SummaryMd
  /\ orig.fs[SummaryMd] = ExampleGlyph
  /\ proc[1].removed_count = 2
  /\ proc[1].cleaned_lines = << <<LF>>, <<SP, SP, LF>>, <<Ord.a, GLYPH, LF>> >>

\* C9: in Variant A empty_removed is the number of empty or whitespace-only
\* input lines, bash_removed the number of non-blank input lines that begin,
\* after leading whitespace, with Bash; no line is counted twice.
C9_CountersA ==
  \A p \in Procs :
  LET r == proc[p]
      seen == SubSeq(r.lines, 1, r.done_lines)
  IN  (r.variant = "A" /\ r.pc \in Filtering) =>
        /\ r.empty_removed = Count("blank", seen, 0)
        /\ r.bash_removed = Count("bash", seen, 0)
        /\ r.empty_removed + r.bash_removed + Len(r.cleaned_lines) = Len(seen)
        /\ r.pc = "done" =>
             r.report[1].removed =
               <<Count("blank", r.lines, 0), Count("bash", r.lines, 0)>>

\* Variant A has reported two blank lines and two Bash lines of a file whose
\* whitespace is tabs, control characters and spaces beyond ASCII.
C9_Witness ==
  /\ proc[1].pc = "done"
  /\ proc[1].variant = "A"
  /\ proc[1].lines = ExampleWhitespaceLines
  /\ proc[1].report[1].removed = <<2, 2>>

\* The bytes the first invocation is to leave in its output file: the lines
\* of its input, the matching ones deleted, one after the other.
FilteredDoc == Encode(Concat(Without(proc[1].variant, OrigLines)))

\* C2: in both variants the lines written to output_path are the input lines
\* with every matching line deleted: same order, nothing duplicated or
\* dropped, nothing added between them, no matching line written.
C2_OutputIsFiltered ==
  LET r == proc[1]
  IN  (r.pc \in Written /\ proc[2].pc = "idle") =>
        /\ r.cleaned_lines = Without(r.variant, OrigLines)
        /\ fs[r.output_path] = FilteredDoc
        /\ readlines(fs[r.output_path]) = r.cleaned_lines
        /\ \A i \in 1..Len(r.cleaned_lines) :
             ~Matches(r.variant, readlines(fs[r.output_path])[i])

\* A run has written a file of two or more kept lines over a longer old
\* file, having removed a line.
C2_Witness ==
  /\ proc[1].pc = "done"
  /\ proc[2].pc = "idle"
  /\ Len(proc[1].cleaned_lines) >= 2
  /\ Len(proc[1].cleaned_lines) < proc[1].original_count
  /\ proc[1].output_path = SummaryCleanedMd
  /\ SummaryCleanedMd \in orig.exists

RECURSIVE RawLines(_, _)
\* The lines of a file as they lie on disk, each with the terminator it has
\* there: "\n", "\r\n", "\r", or none on the last line.
RawLines(t, cur) ==
  IF t = <<>> THEN (IF cur = <<>> THEN <<>> ELSE <<cur>>)
  ELSE IF Head(t) = LF
       THEN <<Append(cur, LF)>> \o RawLines(Tail(t), <<>>)
  ELSE IF Head(t) = CR /\ Len(t) >= 2 /\ t[2] = LF
       THEN <<cur \o <<CR, LF>> >> \o RawLines(SubSeq(t, 3, Len(t)), <<>>)
  ELSE IF Head(t) = CR
       THEN <<Append(cur, CR)>> \o RawLines(Tail(t), <<>>)
  ELSE RawLines(Tail(t), Append(cur, Head(t)))

\* A line on disk with a "\r\n" or "\r" terminator given "\n" instead.
WithLF(l) ==
  LET n == Len(l)
  IN  IF n >= 2 /\ l[n - 1] = CR /\ l[n] = LF THEN Append(SubSeq(l, 1, n - 2), LF)
      ELSE IF n >= 1 /\ l[n] = CR THEN Append(SubSeq(l, 1, n - 1), LF)
      ELSE l

\* The terminator a line has on disk.
Terminator(l) ==
  LET n == Len(l)
  IN  IF n >= 2 /\ l[n - 1] = CR /\ l[n] = LF THEN <<CR, LF>>
      ELSE IF n >= 1 /\ l[n] \in {CR, LF} THEN <<l[n]>>
      ELSE <<>>

RECURSIVE RawKept(_, _)
\* The lines on disk that do not match.
RawKept(v, ls) ==
  IF ls = <<>> THEN <<>>
  ELSE IF Matches(v, Decode(WithLF(Head(ls)))) THEN RawKept(v, Tail(ls))
       ELSE <<Head(ls)>> \o RawKept(v, Tail(ls))

\* The surviving lines of the first invocation's input, as on disk.
OrigRawKept == RawKept(proc[1].variant, RawLines(orig.fs[proc[1].input_path], <<>>))

\* C3 as stated: every surviving line reaches the output byte for byte as it
\* is in the source file, its terminator included, whatever the terminator.
C3_ByteForByte ==
  (proc[1].pc \in Written /\ proc[2].pc = "idle") =>
    fs[proc[1].output_path] = Concat(OrigRawKept)

\* C3 as amended: every surviving line reaches the output with its text
\* unchanged and its terminator as "\n" if it had one: a line ending in "\n"
\* or unterminated is byte for byte the same, a "\r\n" or "\r" terminator is
\* written as "\n".
C3_TerminatorsNormalised ==
  (proc[1].pc \in Written /\ proc[2].pc = "idle") =>
    LET out == RawLines(fs[proc[1].output_path], <<>>)
    IN  /\ Len(out) = Len(OrigRawKept)
        /\ \A i \in 1..Len(out) :
             /\ out[i] = WithLF(OrigRawKept[i])
             /\ Terminator(OrigRawKept[i]) \in {<<LF>>, <<>>} =>
                  out[i] = OrigRawKept[i]
             /\ Terminator(OrigRawKept[i]) \in {<<CR, LF>>, <<CR>>} =>
                  /\ Terminator(out[i]) = <<LF>>
                  /\ out[i] # OrigRawKept[i]

\* Variant A has written the kept lines of a file with "\r\n", "\r", "\n"
\* and an unterminated last line.
C3_Witness ==
  /\ proc[1].pc = "done"
  /\ proc[2].pc = "idle"
  /\ proc[1].variant = "A"
  /\ orig.fs[proc[1].input_path] = ExampleTerminators
  /\ fs[proc[1].output_path] =
       <<Ord.o, Ord.n, Ord.e, LF, Ord.t, Ord.w, Ord.o, LF,
         Ord.B, Ord.a, Ord.s, LF, Ord.t, Ord.h, Ord.r, Ord.e, Ord.e>>

\* C4: the same variant run again, in place, on the file it has written
\* removes nothing, reports the final_count of the first run, and leaves
\* every file as it was; the lines it reads are the lines the first run kept.
C4_SecondPassIdempotent ==
  concurrent = FALSE =>
    /\ proc[2].pc # "failed"
    /\ proc[2].pc \in Filtering =>
         /\ proc[2].lines = proc[1].cleaned_lines
         /\ proc[2].empty_removed = 0
         /\ proc[2].bash_removed = 0
         /\ proc[2].removed_count = 0
    /\ proc[2].pc \in Written => fs = proc[2].fs_at_rerun
    /\ proc[2].pc = "done" =>
         /\ Sum(proc[2].report[1].removed) = 0
         /\ proc[2].report[1].final_count = proc[1].report[1].final_count
         /\ proc[2].report[1].original_count = proc[1].report[1].final_count

\* The second pass is done after a first pass that removed lines and kept
\* several, the last of them unterminated.
C4_Witness ==
  /\ concurrent = FALSE
  /\ proc[2].pc = "done"
  /\ proc[1].original_count > Len(proc[1].cleaned_lines)
  /\ Len(proc[1].cleaned_lines) >= 2
  /\ fs[proc[2].output_path][Len(fs[proc[2].output_path])] # LF

\* C7: with output_path omitted the filtered document replaces the input
\* file; with an output_path that names another file the input file is left
\* as it was and the output file holds the filtered document and nothing of
\* what it held before; a script run standalone reads the summary.md beside
\* it and writes the summary_cleaned.md beside it, and changes no summary.md.
C7_OutputPath ==
  LET r == proc[1]
      target == IF r.arg_output = None THEN r.input_path ELSE r.arg_output
  IN  r.pc # "idle" =>
        /\ r.pc # "resolve" => r.output_path = target
        /\ r.via_main =>
             /\ r.input_path = ScriptInput(r.variant)
             /\ target = ScriptOutput(r.variant)
             /\ fs[SummaryMd] = orig.fs[SummaryMd]
             /\ fs[DeprecatedSummaryMd] = orig.fs[DeprecatedSummaryMd]
        /\ target # r.input_path => fs[r.input_path] = orig.fs[r.input_path]
        /\ (r.pc \in Written /\ proc[2].pc = "idle") =>
             /\ fs[target] = FilteredDoc
             /\ exists = orig.exists \cup {target}
             /\ \A q \in Paths \ {target} : fs[q] = orig.fs[q]

\* A call without output_path is done and has changed its input file.
C7_Witness ==
  /\ proc[1].pc = "done"
  /\ proc[2].pc = "idle"
  /\ proc[1].arg_output = None
  /\ proc[1].input_path = SummaryMd
  /\ fs[SummaryMd] # orig.fs[SummaryMd]
  /\ fs[SummaryMd] # <<>>

\* The positions before the output file is opened, and the failure.
BeforeWrite == {"resolve", "open_in", "read", "close_in", "init", "loop", "failed"}

\* C8: the input is read whole and its handle closed before the output is
\* opened or truncated; an invocation whose open or read of the input fails
\* leaves every file as it was, the output neither created nor truncated;
\* in place, the filtered document comes from the complete original content.
C8_ReadBeforeWrite ==
  /\ \A p \in Procs :
       /\ ~(proc[p].in_open /\ proc[p].out_open)
       /\ proc[p].in_open => proc[p].pc \in {"read", "close_in"}
       /\ proc[p].out_open => proc[p].pc \in {"write", "flush", "close_out"}
  /\ concurrent = FALSE =>
       /\ proc[1].pc \in BeforeWrite => (fs = orig.fs /\ exists = orig.exists)
       /\ proc[1].pc \in Filtering => proc[1].lines = OrigLines
       /\ proc[2].pc \in BeforeWrite => fs = proc[2].fs_at_rerun
       /\ (proc[1].pc \in Written /\ proc[2].pc = "idle"
             /\ proc[1].output_path = proc[1].input_path) =>
            fs[proc[1].input_path] = FilteredDoc

\* The read of an undecodable input has failed, and the output file that
\* existed still holds what it held.
C8_Witness ==
  /\ proc[1].pc = "failed"
  /\ proc[1].input_path = SummaryMd
  /\ ~Decodable(fs[SummaryMd], TRUE)
  /\ proc[1].output_path = SummaryCleanedMd
  /\ SummaryCleanedMd \in exists
  /\ fs[SummaryCleanedMd] = OldContent

\* b written over a from the first byte on.
Overlay(a, b) ==
  [i \in 1..(IF Len(a) > Len(b) THEN Len(a) ELSE Len(b)) |->
     IF i <= Len(b) THEN b[i] ELSE a[i]]

\* The document invocation p has written.
Flushed(p) == Encode(Concat(proc[p].cleaned_lines))

\* The document invocation p writes when it runs alone on the files as they
\* were at the start.
Alone(p) ==
  Encode(Concat(Without(proc[p].variant, readlines(orig.fs[proc[p].input_path]))))

\* C10: two invocations running concurrently against one output path race:
\* nothing orders their open/truncate/write/close steps.  Of documents that
\* a handle writes in one write() call, those of ChunkSize bytes at most,
\* the file holds, once both are done, the document of one invocation or
\* the document of one written over the document of the other, and there is
\* an interleaving (C10_Witness) after which it holds neither invocation's
\* own document.
C10_RaceOutcomes ==
  (concurrent /\ proc[1].pc \in Written /\ proc[2].pc \in Written) =>
    /\ proc[1].output_path = proc[2].output_path
    /\ (Len(Flushed(1)) <= ChunkSize /\ Len(Flushed(2)) <= ChunkSize) =>
         fs[proc[1].output_path] \in
           {Flushed(1), Flushed(2),
            Overlay(Flushed(1), Flushed(2)), Overlay(Flushed(2), Flushed(1))}

\* Two invocations with one output path are done; each read the whole of its
\* input as it was at the start and wrote the document it writes when run
\* alone, and the output file holds neither document.
C10_Witness ==
  /\ concurrent
  /\ \A p \in Procs :
       /\ proc[p].pc = "done"
       /\ Flushed(p) = Alone(p)
  /\ proc[1].output_path = proc[2].output_path
  /\ fs[proc[1].output_path] # Alone(1)
  /\ fs[proc[1].output_path] # Alone(2)

=============================================================================
